---- MODULE Spec2Model ----
(***************************************************************************)
(* External sort-and-deduplicate engine of Full_Utills_AddressesFile.py:   *)
(* SortingChecker.is_file_sorted and ExternalSorter (external_sort,        *)
(* _create_sorted_chunks, _merge_chunks, _auto_verify_sorting).            *)
(*                                                                         *)
(* A line of text is a sequence of characters; a character is a natural    *)
(* number whose order is the code-point order Python compares strings by.  *)
(* A file is either absent or a sequence of lines (its newline-terminated  *)
(* records).  The file system is shared by all jobs.                       *)
(***************************************************************************)
EXTENDS Integers, Sequences, FiniteSets, Bags, TLC

(***************************************************************************)
(* Bounds of the model.                                                    *)
(***************************************************************************)
MaxLines == 3
MaxBudget == 5

(***************************************************************************)
(* Characters and lines.                                                   *)
(***************************************************************************)
Space == 0

\* the lines an input file is made of: " ", "a", " a", "ab", "b"
RawLines == { <<Space>>, <<1>>, <<Space, 1>>, <<1, 2>>, <<2>> }

RECURSIVE LStrip(_)
LStrip(s) ==
  IF s = <<>> THEN s
  ELSE IF Head(s) = Space THEN LStrip(Tail(s)) ELSE s

RECURSIVE RStrip(_)
RStrip(s) ==
  IF s = <<>> THEN s
  ELSE IF s[Len(s)] = Space THEN RStrip(SubSeq(s, 1, Len(s) - 1)) ELSE s

\* str.strip()
Strip(s) == RStrip(LStrip(s))

\* str.__lt__ : lexicographic order over code points
RECURSIVE LexLess(_, _)
LexLess(a, b) ==
  IF b = <<>> THEN FALSE
  ELSE IF a = <<>> THEN TRUE
  ELSE IF Head(a) < Head(b) THEN TRUE
  ELSE IF Head(a) > Head(b) THEN FALSE
  ELSE LexLess(Tail(a), Tail(b))

\* len(line.encode('utf-8')) : the characters of the model are one byte each
Utf8Len(line) == Len(line)

RECURSIVE InsertSorted(_, _)
InsertSorted(x, s) ==
  IF s = <<>> THEN <<x>>
  ELSE IF LexLess(x, Head(s)) THEN <<x>> \o s
  ELSE <<Head(s)>> \o InsertSorted(x, Tail(s))

RECURSIVE SortedOf(_)
SortedOf(s) ==
  IF s = <<>> THEN <<>> ELSE InsertSorted(Head(s), SortedOf(Tail(s)))

\* list.sort()
ListSort(s) == SortedOf(s)

(***************************************************************************)
(* Files.                                                                  *)
(***************************************************************************)
Absent == [exists |-> FALSE, data |-> <<>>]
File(d) == [exists |-> TRUE, data |-> d]

\* an optional line: None or a string
None == [some |-> FALSE, line |-> <<>>]
Some(l) == [some |-> TRUE, line |-> l]

\* SortingChecker.is_file_sorted: <<is_sorted, line number>>
RECURSIVE CheckFrom(_, _, _)
CheckFrom(d, n, prev) ==
  IF n > Len(d) THEN <<TRUE, Len(d)>>
  ELSE IF prev.some /\ LexLess(Strip(d[n]), prev.line) THEN <<FALSE, n>>
  ELSE CheckFrom(d, n + 1, Some(Strip(d[n])))

is_file_sorted(f) ==
  IF ~f.exists THEN <<FALSE, 0>> ELSE CheckFrom(f.data, 1, None)

(***************************************************************************)
(* File names.  A name is <<kind, owner, n>>.                              *)
(***************************************************************************)
JobIds == {1, 2}
TempDirs == {1, 2}

InputFile(j) == <<"in", j, 0>>
OutputFile(j) == <<"out", j, 0>>

\* output_file + ".temp"
TempOutput(name) == <<name[1], name[2], name[3] + 1>>

\* os.path.join(self.temp_dir, f"chunk_{chunk_num:06d}.txt")
ChunkFile(temp_dir, chunk_num) == <<"chunk", temp_dir, chunk_num>>

ChunkNames == { ChunkFile(d, n) : d \in TempDirs, n \in 0..(MaxLines + 1) }

\* os.path.join(self.temp_dir, "cleaned.txt")
CleanedFile(temp_dir) == <<"cleaned", temp_dir, 0>>

\* os.path.join(self.temp_dir, "filtered_before_sort.txt")
FilteredFile(temp_dir) == <<"filtered", temp_dir, 0>>

FileNames ==
  { InputFile(j) : j \in JobIds }
    \cup { OutputFile(j) : j \in JobIds }
    \cup { TempOutput(OutputFile(j)) : j \in JobIds }
    \cup ChunkNames
    \cup { CleanedFile(d) : d \in TempDirs }
    \cup { FilteredFile(d) : d \in TempDirs }

\* every file content of at most n lines
FilesUpTo(n) == UNION { [1..k -> RawLines] : k \in 0..n }

(***************************************************************************)
(* State.                                                                  *)
(*   fs      the file system: name -> file                                 *)
(*   sorter  the ExternalSorter object of each job                         *)
(*   stack   the call stack of each job: one frame per active call of      *)
(*           external_sort (the re-sort of _auto_verify_sorting is a       *)
(*           nested call)                                                  *)
(*   resorts how many re-sorts each job has started                        *)
(*   touched <<job, chunk file, operation>> for every chunk file a job has *)
(*           written, opened for reading or removed                        *)
(***************************************************************************)
VARIABLES fs, sorter, stack, resorts, touched

vars == <<fs, sorter, stack, resorts, touched>>

\* ExternalSorter.__init__
chunk_size(j) == sorter[j].memory_limit_bytes \div 2

\* the frame of a call external_sort(input_file, output_file, deduplicate, auto_verify)
NewFrame(input_file, output_file, deduplicate, auto_verify) ==
  [ input_file |-> input_file,
    output_file |-> output_file,
    deduplicate |-> deduplicate,
    auto_verify |-> auto_verify,
    pc |-> "start",
    pos |-> 0,
    chunks |-> <<>>,
    chunk_num |-> 0,
    chunk_files |-> <<>>,
    current_lines |-> <<>>,
    last_line |-> None,
    lines_written |-> 0,
    open_failed |-> {},
    skipped |-> FALSE,
    heal |-> "none" ]

Depth(j) == Len(stack[j])
Top(j) == stack[j][Depth(j)]
SetTop(j, f) == [stack EXCEPT ![j] = [@ EXCEPT ![Len(@)] = f]]

\* op is "write", "read" or "remove"
Touch(j, names, op) == touched \cup { <<j, n, op>> : n \in names }

SeqRange(s) == { s[i] : i \in 1..Len(s) }

(***************************************************************************)
(* external_sort, lines 164-169: the output exists and verifies, skip.     *)
(***************************************************************************)
\* an external_sort without the shortcut: it always runs the pipeline
StartNoSkip(j) ==
  /\ Depth(j) > 0
  /\ Top(j).pc = "start"
  /\ stack' = SetTop(j, [Top(j) EXCEPT !.pc = "spill"])
  /\ UNCHANGED <<fs, sorter, resorts, touched>>

Start(j) ==
  /\ Depth(j) > 0
  /\ Top(j).pc = "start"
  /\ LET f == Top(j) IN
       IF fs[f.output_file].exists /\ f.auto_verify
            /\ is_file_sorted(fs[f.output_file])[1]
       THEN stack' = SetTop(j, [f EXCEPT !.pc = "done", !.skipped = TRUE])
       ELSE stack' = SetTop(j, [f EXCEPT !.pc = "spill"])
  /\ UNCHANGED <<fs, sorter, resorts, touched>>

(***************************************************************************)
(* _create_sorted_chunks, lines 198-214: read one batch from position pos. *)
(* The result is the batch and the position reached.                       *)
(***************************************************************************)
RECURSIVE ReadBatch(_, _, _, _, _)
ReadBatch(d, pos, lines, current_size, limit) ==
  IF ~(current_size < limit) THEN [lines |-> lines, pos |-> pos]
  ELSE IF pos >= Len(d) THEN [lines |-> lines, pos |-> pos]
  ELSE LET line == Strip(d[pos + 1]) IN
         IF line # <<>>
         THEN ReadBatch(d, pos + 1, Append(lines, line),
                        current_size + Utf8Len(line), limit)
         ELSE ReadBatch(d, pos + 1, lines, current_size, limit)

\* a spiller that hands over to the merge after its first chunk, whatever is
\* left of the input
CreateChunkOnce(j) ==
  /\ Depth(j) > 0
  /\ Top(j).pc = "spill"
  /\ fs[Top(j).input_file].exists
  /\ LET f == Top(j)
         b == ReadBatch(fs[f.input_file].data, f.pos, <<>>, 0, chunk_size(j))
         chunk_file == ChunkFile(sorter[j].temp_dir, f.chunk_num)
     IN IF b.lines = <<>>
        THEN /\ stack' = SetTop(j, [f EXCEPT !.pc = "merge", !.pos = b.pos])
             /\ UNCHANGED <<fs, touched>>
        ELSE /\ fs' = [fs EXCEPT ![chunk_file] = File(ListSort(b.lines))]
             /\ stack' = SetTop(j, [f EXCEPT !.pc = "merge",
                                             !.pos = b.pos,
                                             !.chunks = Append(@, chunk_file),
                                             !.chunk_num = @ + 1])
             /\ touched' = Touch(j, {chunk_file}, "write")
  /\ UNCHANGED <<sorter, resorts>>

\* one iteration of the outer loop of _create_sorted_chunks (lines 198-226);
\* open(input_file) raises when the input does not exist
CreateChunk(j) ==
  /\ Depth(j) > 0
  /\ Top(j).pc = "spill"
  /\ LET f == Top(j) IN
       IF ~fs[f.input_file].exists
       THEN /\ stack' = SetTop(j, [f EXCEPT !.pc = "raised"])
            /\ UNCHANGED <<fs, touched>>
       ELSE LET b == ReadBatch(fs[f.input_file].data, f.pos, <<>>, 0, chunk_size(j))
                chunk_file == ChunkFile(sorter[j].temp_dir, f.chunk_num)
            IN IF b.lines = <<>>
               THEN /\ stack' = SetTop(j, [f EXCEPT !.pc = "merge", !.pos = b.pos])
                    /\ UNCHANGED <<fs, touched>>
               ELSE /\ fs' = [fs EXCEPT ![chunk_file] = File(ListSort(b.lines))]
                    /\ stack' = SetTop(j, [f EXCEPT !.pos = b.pos,
                                                    !.chunks = Append(@, chunk_file),
                                                    !.chunk_num = @ + 1])
                    /\ touched' = Touch(j, {chunk_file}, "write")
  /\ UNCHANGED <<sorter, resorts>>

(***************************************************************************)
(* _merge_chunks.                                                          *)
(* An open chunk file is a handle: its name, the number of lines read and  *)
(* the content it had when it was opened.                                  *)
(***************************************************************************)
LineAt(d, pos) ==
  IF pos < Len(d) THEN [eof |-> FALSE, line |-> d[pos + 1]]
  ELSE [eof |-> TRUE, line |-> <<>>]

\* f.readline(): when the file was rewritten or removed under the reader, the
\* line comes from the content at open time or from the content now
ReadLine(h) ==
  { LineAt(h.snap, h.pos) }
    \cup (IF fs[h.name].exists /\ fs[h.name].data # h.snap
          THEN { LineAt(fs[h.name].data, h.pos) } ELSE {})

\* lines 245-255: open every chunk and read its first line; a chunk that
\* cannot be opened appends None to current_lines and nothing to chunk_files
RECURSIVE OpenChunks(_, _, _)
OpenChunks(chunks, i, acc) ==
  IF i > Len(chunks) THEN acc
  ELSE LET c == fs[chunks[i]] IN
    IF ~c.exists
    THEN OpenChunks(chunks, i + 1,
           [acc EXCEPT !.current_lines = Append(@, None),
                       !.open_failed = @ \cup {i}])
    ELSE LET first == LineAt(c.data, 0)
             line == Strip(first.line)
         IN OpenChunks(chunks, i + 1,
              [acc EXCEPT
                 !.chunk_files = Append(@, [name |-> chunks[i],
                                            pos |-> IF first.eof THEN 0 ELSE 1,
                                            snap |-> c.data]),
                 !.current_lines = Append(@, IF line # <<>> THEN Some(line) ELSE None)])

\* lines 238-258: no chunks, return; else open the chunks and create the output
MergeOpen(j) ==
  /\ Depth(j) > 0
  /\ Top(j).pc = "merge"
  /\ LET f == Top(j) IN
       IF f.chunks = <<>>
       THEN /\ stack' = SetTop(j, [f EXCEPT !.pc = "verify"])
            /\ UNCHANGED <<fs, touched>>
       ELSE LET o == OpenChunks(f.chunks, 1,
                       [chunk_files |-> <<>>, current_lines |-> <<>>, open_failed |-> {}])
            IN /\ stack' = SetTop(j, [f EXCEPT !.pc = "merging",
                                               !.chunk_files = o.chunk_files,
                                               !.current_lines = o.current_lines,
                                               !.open_failed = o.open_failed])
               /\ fs' = [fs EXCEPT ![f.output_file] = File(<<>>)]
               /\ touched' = Touch(j, { h.name : h \in SeqRange(o.chunk_files) }, "read")
  /\ UNCHANGED <<sorter, resorts>>

\* lines 264-271: index of the smallest current line, the first among equals;
\* 0 when every cursor is exhausted
\* a scan that takes the last cursor still holding a line, whatever the line
MinIndexLast(current_lines, i, best) ==
  LET live == { k \in i..Len(current_lines) : current_lines[k].some }
  IN IF live = {} THEN best ELSE CHOOSE k \in live : \A m \in live : m <= k

RECURSIVE MinIndex(_, _, _)
MinIndex(current_lines, i, best) ==
  IF i > Len(current_lines) THEN best
  ELSE IF current_lines[i].some
          /\ (best = 0 \/ LexLess(current_lines[i].line, current_lines[best].line))
       THEN MinIndex(current_lines, i + 1, i)
       ELSE MinIndex(current_lines, i + 1, best)

\* a buggy duplicate test that never skips
IsDuplicateNever(deduplicate, min_line, last_line) == FALSE

\* a duplicate test that ignores the deduplicate flag
IsDuplicateAlways(deduplicate, min_line, last_line) ==
  Some(min_line) = last_line

\* line 277, negated: the line is skipped
IsDuplicate(deduplicate, min_line, last_line) ==
  deduplicate /\ Some(min_line) = last_line

\* one iteration of the merge loop (lines 262-290), or its end (lines 273-294)
MergeStep(j) ==
  /\ Depth(j) > 0
  /\ Top(j).pc = "merging"
  /\ LET f == Top(j)
         min_index == MinIndex(f.current_lines, 1, 0)
     IN IF min_index = 0
        THEN /\ stack' = SetTop(j, [f EXCEPT !.pc = "verify", !.chunk_files = <<>>])
             /\ UNCHANGED fs
        ELSE LET min_line == f.current_lines[min_index].line
                 skip == IsDuplicate(f.deduplicate, min_line, f.last_line)
                 g == IF skip THEN f
                      ELSE [f EXCEPT !.last_line = Some(min_line),
                                     !.lines_written = @ + 1]
             IN /\ fs' = IF skip THEN fs
                         ELSE [fs EXCEPT ![f.output_file] =
                                 File(Append(fs[f.output_file].data, min_line))]
                /\ IF min_index > Len(f.chunk_files)
                   THEN \* chunk_files[min_index] raises IndexError
                        stack' = SetTop(j, [g EXCEPT !.pc = "raised"])
                   ELSE \E r \in ReadLine(f.chunk_files[min_index]) :
                          stack' = SetTop(j,
                            [g EXCEPT
                               !.chunk_files[min_index].pos =
                                  IF r.eof THEN @ ELSE @ + 1,
                               !.current_lines[min_index] =
                                  IF r.eof THEN None ELSE Some(Strip(r.line))])
  /\ UNCHANGED <<sorter, resorts, touched>>

(***************************************************************************)
(* external_sort lines 177-179 and _auto_verify_sorting lines 302-311:     *)
(* verify the output; when it is not sorted, call external_sort again on   *)
(* the output, into output_file + ".temp".                                 *)
(***************************************************************************)
\* line 311: the arguments of the nested call
ResortDeduplicate == FALSE

\* a re-sort that verifies and heals its own output
ResortAutoVerifyOn == TRUE

ResortAutoVerify == FALSE

AutoVerify(j) ==
  /\ Depth(j) > 0
  /\ Top(j).pc = "verify"
  /\ LET f == Top(j) IN
       IF ~f.auto_verify \/ is_file_sorted(fs[f.output_file])[1]
       THEN /\ stack' = SetTop(j, [f EXCEPT !.pc = "cleanup"])
            /\ UNCHANGED resorts
       ELSE /\ stack' = [stack EXCEPT ![j] =
                  Append([@ EXCEPT ![Len(@)] = [f EXCEPT !.pc = "resorting"]],
                         NewFrame(f.output_file, TempOutput(f.output_file),
                                  ResortDeduplicate, ResortAutoVerify))]
            /\ resorts' = [resorts EXCEPT ![j] = @ + 1]
  /\ UNCHANGED <<fs, sorter, touched>>

\* lines 313-326, after the nested call has returned: remove the output,
\* rename the temporary file to it, verify once more and only print the result
ReplaceOutput(j) ==
  /\ Depth(j) > 1
  /\ Top(j).pc = "done"
  /\ LET f == stack[j][Depth(j) - 1]
         temp_output == TempOutput(f.output_file)
         removed == [fs EXCEPT ![f.output_file] = Absent]
         renamed == [removed EXCEPT ![f.output_file] = fs[temp_output],
                                    ![temp_output] = Absent]
         fs2 == IF ~fs[f.output_file].exists THEN fs
                ELSE IF ~fs[temp_output].exists THEN removed
                ELSE renamed
         heal == IF ~fs[f.output_file].exists \/ ~fs[temp_output].exists
                 THEN "error"
                 ELSE IF is_file_sorted(fs2[f.output_file])[1] THEN "sorted"
                 ELSE "still_unsorted"
     IN /\ fs' = fs2
        /\ stack' = [stack EXCEPT ![j] =
                       Append(SubSeq(@, 1, Len(@) - 2),
                              [f EXCEPT !.pc = "cleanup", !.heal = heal])]
  /\ UNCHANGED <<sorter, resorts, touched>>

\* an exception of the nested call (line 311 is outside the try) leaves
\* _auto_verify_sorting and the calling external_sort
PropagateRaise(j) ==
  /\ Depth(j) > 1
  /\ Top(j).pc = "raised"
  /\ stack' = [stack EXCEPT ![j] =
                 Append(SubSeq(@, 1, Len(@) - 2),
                        [stack[j][Depth(j) - 1] EXCEPT !.pc = "raised"])]
  /\ UNCHANGED <<fs, sorter, resorts, touched>>

\* a chunk file some other job holds open
OpenElsewhere(j, name) ==
  \E k \in JobIds \ {j} : \E i \in 1..Len(stack[k]) :
     \E h \in SeqRange(stack[k][i].chunk_files) : h.name = name

\* lines 181-188: remove every chunk, ignoring errors, and return True.
\* Removing a file that another process holds open fails on Windows and
\* succeeds elsewhere.
Cleanup(j) ==
  /\ Depth(j) > 0
  /\ Top(j).pc = "cleanup"
  /\ LET f == Top(j)
         names == SeqRange(f.chunks)
     IN /\ \E kept \in SUBSET { n \in names : OpenElsewhere(j, n) } :
             fs' = [n \in FileNames |->
                      IF n \in names \ kept THEN Absent ELSE fs[n]]
        /\ stack' = SetTop(j, [f EXCEPT !.pc = "done"])
        /\ touched' = Touch(j, names, "remove")
  /\ UNCHANGED <<sorter, resorts>>

(***************************************************************************)
(* One job on a file system that may hold an output file and a ".temp"     *)
(* file of earlier work.                                                   *)
(***************************************************************************)
Budgets == 0..MaxBudget

\* "b","a" (not sorted) and "a"
ExistingOutputs == { Absent, File(<< <<2>>, <<1>> >>), File(<< <<1>> >>) }

\* "ab","a" (not sorted)
ExistingTemps == { Absent, File(<< <<1, 2>>, <<1>> >>) }

InputFiles == { Absent } \cup { File(d) : d \in FilesUpTo(MaxLines) }

Init ==
  /\ \E b \in Budgets :
       sorter = [j \in JobIds |-> [temp_dir |-> 1, memory_limit_bytes |-> b]]
  /\ \E i \in InputFiles, o \in ExistingOutputs, t \in ExistingTemps :
       fs = [n \in FileNames |->
               IF n = InputFile(1) THEN i
               ELSE IF n = OutputFile(1) THEN o
               ELSE IF n = TempOutput(OutputFile(1)) THEN t
               ELSE Absent]
  /\ \E deduplicate \in BOOLEAN, auto_verify \in BOOLEAN :
       stack = [j \in JobIds |->
                  IF j = 1
                  THEN << NewFrame(InputFile(1), OutputFile(1), deduplicate, auto_verify) >>
                  ELSE << >>]
  /\ resorts = [j \in JobIds |-> 0]
  /\ touched = {}

Step(j) ==
  \/ Start(j)
  \/ CreateChunk(j)
  \/ MergeOpen(j)
  \/ MergeStep(j)
  \/ AutoVerify(j)
  \/ ReplaceOutput(j)
  \/ PropagateRaise(j)
  \/ Cleanup(j)

Next == \E j \in JobIds : Step(j)

Spec == Init /\ [][Next]_vars

(***************************************************************************)
(* The same job in a temp directory where a chunk file can disappear       *)
(* before the merge opens it (the directory is shared scratch space).      *)
(* Only a removal between the writing and the opening of a chunk is seen   *)
(* by the job.                                                             *)
(***************************************************************************)
EnvRemoveChunk ==
  /\ \E j \in JobIds :
       /\ Depth(j) > 0
       /\ Top(j).pc \in {"spill", "merge"}
       /\ \E n \in SeqRange(Top(j).chunks) :
            /\ fs[n].exists
            /\ fs' = [fs EXCEPT ![n] = Absent]
  /\ UNCHANGED <<sorter, stack, resorts, touched>>

NextFault == Next \/ EnvRemoveChunk

SpecFault == Init /\ [][NextFault]_vars

(***************************************************************************)
(* Two jobs started together, each with its own input and output file,     *)
(* each with its own ExternalSorter; the sorters may share the temp        *)
(* directory (TEMP_DIR is one process-wide setting).                       *)
(***************************************************************************)
\* "b","a" / "a" / no line
ConcInputs == { File(<< <<2>>, <<1>> >>), File(<< <<1>> >>), File(<< >>) }

ConcBudgets == {2, 4}

InitConc ==
  /\ \E b \in ConcBudgets, d \in TempDirs :
       sorter = [j \in JobIds |->
                   [temp_dir |-> IF j = 1 THEN 1 ELSE d, memory_limit_bytes |-> b]]
  /\ \E i \in [JobIds -> ConcInputs], o \in ExistingOutputs :
       fs = [n \in FileNames |->
               IF \E j \in JobIds : n = InputFile(j) THEN i[n[2]]
               ELSE IF n = OutputFile(1) THEN o
               ELSE Absent]
  /\ \E auto_verify \in BOOLEAN :
       stack = [j \in JobIds |->
                  << NewFrame(InputFile(j), OutputFile(j), TRUE, auto_verify) >>]
  /\ resorts = [j \in JobIds |-> 0]
  /\ touched = {}

SpecConc == InitConc /\ [][Next]_vars

(***************************************************************************)
(* A job that can be cancelled (KeyboardInterrupt, caught only in main,    *)
(* lines 1732-1736) or hit an I/O error at any stage: the exception leaves *)
(* external_sort, which has no handler and no finally clause.  The writes  *)
(* made so far stay on disk (the `with` of line 258 flushes and closes the *)
(* output).  After the job has ended, the same call can be made again, by  *)
(* the same ExternalSorter (the menu loop of interactive_menu keeps one    *)
(* LargeFileProcessor).                                                    *)
(***************************************************************************)
Abort(j) ==
  /\ Depth(j) > 0
  /\ Top(j).pc \in {"spill", "merge", "merging", "verify", "cleanup"}
  /\ stack' = SetTop(j, [Top(j) EXCEPT !.pc = "raised"])
  /\ UNCHANGED <<fs, sorter, resorts, touched>>

\* once job 1 has ended, job 2 is the call
\* external_sort(input_file, output_file) with the flags of job 1
LaterJob(input_file, output_file) ==
  /\ stack[2] = << >>
  /\ Depth(1) = 1
  /\ Top(1).pc \in {"done", "raised"}
  /\ stack' = [stack EXCEPT ![2] =
                 << NewFrame(input_file, output_file,
                             Top(1).deduplicate, Top(1).auto_verify) >>]
  /\ UNCHANGED <<fs, sorter, resorts, touched>>

\* "b","a" / "a","b","a" / "a" / no line
AbortInputs ==
  { File(<< <<2>>, <<1>> >>), File(<< <<1>>, <<2>>, <<1>> >>),
    File(<< <<1>> >>), File(<< >>) }

AbortBudgets == {1, 2, 4}

InitAbort ==
  /\ \E b \in AbortBudgets :
       sorter = [j \in JobIds |-> [temp_dir |-> 1, memory_limit_bytes |-> b]]
  /\ \E i \in AbortInputs, o \in ExistingOutputs, t \in ExistingTemps :
       fs = [n \in FileNames |->
               IF n = InputFile(1) THEN i
               ELSE IF n = OutputFile(1) THEN o
               ELSE IF n = TempOutput(OutputFile(1)) THEN t
               ELSE Absent]
  /\ \E deduplicate \in BOOLEAN, auto_verify \in BOOLEAN :
       stack = [j \in JobIds |->
                  IF j = 1
                  THEN << NewFrame(InputFile(1), OutputFile(1), deduplicate, auto_verify) >>
                  ELSE << >>]
  /\ resorts = [j \in JobIds |-> 0]
  /\ touched = {}

NextAbort ==
  \/ Next
  \/ \E j \in JobIds : Abort(j)
  \/ LaterJob(InputFile(1), OutputFile(1))

SpecAbort == InitAbort /\ [][NextAbort]_vars

(***************************************************************************)
(* One job whose input has a line longer than the budgets: " ", "a", "b"   *)
(* and "aaaaa".                                                            *)
(***************************************************************************)
LongLines == { <<Space>>, <<1>>, <<2>>, <<1, 1, 1, 1, 1>> }

LongInputs == { File(d) : d \in UNION { [1..k -> LongLines] : k \in 0..MaxLines } }

InitLong ==
  /\ \E b \in Budgets :
       sorter = [j \in JobIds |-> [temp_dir |-> 1, memory_limit_bytes |-> b]]
  /\ \E i \in LongInputs, o \in ExistingOutputs, t \in ExistingTemps :
       fs = [n \in FileNames |->
               IF n = InputFile(1) THEN i
               ELSE IF n = OutputFile(1) THEN o
               ELSE IF n = TempOutput(OutputFile(1)) THEN t
               ELSE Absent]
  /\ \E deduplicate \in BOOLEAN, auto_verify \in BOOLEAN :
       stack = [j \in JobIds |->
                  IF j = 1
                  THEN << NewFrame(InputFile(1), OutputFile(1), deduplicate, auto_verify) >>
                  ELSE << >>]
  /\ resorts = [j \in JobIds |-> 0]
  /\ touched = {}

SpecLong == InitLong /\ [][Next]_vars

(***************************************************************************)
(* Two runs, one after the other, each by an ExternalSorter with a budget  *)
(* of its own: the second run writes a fresh output path and reads either  *)
(* the input of the first run or the output of the first run.             *)
(***************************************************************************)
SeqInputs == { File(d) : d \in FilesUpTo(MaxLines - 1) }

SeqBudgets == 1..MaxBudget

InitSeq ==
  /\ \E b \in [JobIds -> SeqBudgets] :
       sorter = [j \in JobIds |-> [temp_dir |-> 1, memory_limit_bytes |-> b[j]]]
  /\ \E i \in SeqInputs, o \in ExistingOutputs :
       fs = [n \in FileNames |->
               IF n = InputFile(1) THEN i
               ELSE IF n = OutputFile(1) THEN o
               ELSE Absent]
  /\ \E deduplicate \in BOOLEAN, auto_verify \in BOOLEAN :
       stack = [j \in JobIds |->
                  IF j = 1
                  THEN << NewFrame(InputFile(1), OutputFile(1), deduplicate, auto_verify) >>
                  ELSE << >>]
  /\ resorts = [j \in JobIds |-> 0]
  /\ touched = {}

NextSeq ==
  \/ Next
  \/ LaterJob(InputFile(1), OutputFile(2))
  \/ LaterJob(OutputFile(1), OutputFile(2))

SpecSeq == InitSeq /\ [][NextSeq]_vars

(***************************************************************************)
(* _merge_chunks alone, called on chunk files of any content: records in   *)
(* any order, sorted or not.                                               *)
(***************************************************************************)
\* the non-empty trimmed lines: "a", "ab", "b"
Records == { Strip(l) : l \in RawLines } \ { <<>> }

MergeChunks == << ChunkFile(1, 0), ChunkFile(1, 1) >>

ChunkContents == UNION { [1..k -> Records] : k \in 0..MaxLines }

InitMerge ==
  /\ sorter = [j \in JobIds |-> [temp_dir |-> 1, memory_limit_bytes |-> MaxBudget]]
  /\ \E n \in 0..Len(MergeChunks), deduplicate \in BOOLEAN :
       /\ \E d \in [1..n -> ChunkContents] :
            fs = [name \in FileNames |->
                    IF \E i \in 1..n : name = MergeChunks[i]
                    THEN File(d[name[3] + 1]) ELSE Absent]
       /\ stack = [j \in JobIds |->
                     IF j = 1
                     THEN << [NewFrame(InputFile(1), OutputFile(1), deduplicate, FALSE)
                                EXCEPT !.pc = "merge",
                                       !.chunks = SubSeq(MergeChunks, 1, n),
                                       !.chunk_num = n] >>
                     ELSE << >>]
  /\ resorts = [j \in JobIds |-> 0]
  /\ touched = {}

NextMerge == \E j \in JobIds : MergeOpen(j) \/ MergeStep(j)

SpecMerge == InitMerge /\ [][NextMerge]_vars

(***************************************************************************)
(* _merge_chunks called twice on the same two chunk files, listed in one   *)
(* order by job 1 and in the other order by job 2 (so that, where the two  *)
(* cursors hold equal lines, the two calls take them from different        *)
(* chunks), each call with an output file of its own.                      *)
(***************************************************************************)
TieContents == UNION { [1..k -> Records] : k \in 0..(MaxLines - 1) }

InitTie ==
  /\ sorter = [j \in JobIds |-> [temp_dir |-> 1, memory_limit_bytes |-> MaxBudget]]
  /\ \E d \in [1..Len(MergeChunks) -> TieContents] :
       fs = [name \in FileNames |->
               IF \E i \in 1..Len(MergeChunks) : name = MergeChunks[i]
               THEN File(d[name[3] + 1]) ELSE Absent]
  /\ \E deduplicate \in BOOLEAN :
       stack = [j \in JobIds |->
                  << [NewFrame(InputFile(j), OutputFile(j), deduplicate, FALSE)
                        EXCEPT !.pc = "merge",
                               !.chunks = IF j = 1 THEN MergeChunks
                                          ELSE << MergeChunks[2], MergeChunks[1] >>,
                               !.chunk_num = Len(MergeChunks)] >>]
  /\ resorts = [j \in JobIds |-> 0]
  /\ touched = {}

SpecTie == InitTie /\ [][NextMerge]_vars

(***************************************************************************)
(* LargeFileProcessor._clean_file and _clean_and_filter_file: one pass     *)
(* over the input that writes the lines kept to a new file.                *)
(* filter_characters is a string, here the set of its characters.          *)
(***************************************************************************)
\* `char in stripped`
Contains(line, char) == \E i \in 1..Len(line) : line[i] = char

\* a filter that looks for the characters in the line as read
KeepsRaw(line, filter_characters) ==
  /\ Strip(line) # <<>>
  /\ ~\E char \in filter_characters : Contains(line, char)

\* line 858: stripped and not any(char in stripped for char in filter_characters)
Keeps(line, filter_characters) ==
  /\ Strip(line) # <<>>
  /\ ~\E char \in filter_characters : Contains(Strip(line), char)

\* the loop of lines 854-859 from line i on: the lines written
RECURSIVE CleanAndFilterFrom(_, _, _, _)
CleanAndFilterFrom(d, i, out, filter_characters) ==
  IF i > Len(d) THEN out
  ELSE CleanAndFilterFrom(d, i + 1,
         IF Keeps(d[i], filter_characters) THEN Append(out, Strip(d[i])) ELSE out,
         filter_characters)

\* the loop of lines 1413-1416 from line i on: the lines written
RECURSIVE CleanFrom(_, _, _)
CleanFrom(d, i, out) ==
  IF i > Len(d) THEN out
  ELSE CleanFrom(d, i + 1,
         IF Strip(d[i]) # <<>> THEN Append(out, Strip(d[i])) ELSE out)

CleanFrame(input_file, output_file, filtering, filter_characters) ==
  [ pc |-> "cleaning",
    input_file |-> input_file,
    output_file |-> output_file,
    filtering |-> filtering,
    filter_characters |-> filter_characters ]

\* _clean_file(input_file, output_file); open(input_file) raises when the
\* input does not exist, before the output is created
CleanFile(j) ==
  /\ Depth(j) > 0
  /\ Top(j).pc = "cleaning"
  /\ ~Top(j).filtering
  /\ LET f == Top(j) IN
       IF ~fs[f.input_file].exists
       THEN /\ stack' = SetTop(j, [f EXCEPT !.pc = "raised"])
            /\ UNCHANGED fs
       ELSE /\ fs' = [fs EXCEPT ![f.output_file] =
                        File(CleanFrom(fs[f.input_file].data, 1, <<>>))]
            /\ stack' = SetTop(j, [f EXCEPT !.pc = "cleaned"])
  /\ UNCHANGED <<sorter, resorts, touched>>

\* _clean_and_filter_file(input_file, output_file, filter_characters)
CleanAndFilterFile(j) ==
  /\ Depth(j) > 0
  /\ Top(j).pc = "cleaning"
  /\ Top(j).filtering
  /\ LET f == Top(j) IN
       IF ~fs[f.input_file].exists
       THEN /\ stack' = SetTop(j, [f EXCEPT !.pc = "raised"])
            /\ UNCHANGED fs
       ELSE /\ fs' = [fs EXCEPT ![f.output_file] =
                        File(CleanAndFilterFrom(fs[f.input_file].data, 1, <<>>,
                                                f.filter_characters))]
            /\ stack' = SetTop(j, [f EXCEPT !.pc = "cleaned"])
  /\ UNCHANGED <<sorter, resorts, touched>>

\* "b" / " b" / "a"
Blacklists == { {2}, {Space, 2}, {1} }

InitClean ==
  /\ sorter = [j \in JobIds |-> [temp_dir |-> 1, memory_limit_bytes |-> MaxBudget]]
  /\ \E i \in InputFiles :
       fs = [n \in FileNames |-> IF n = InputFile(1) THEN i ELSE Absent]
  /\ \E filtering \in BOOLEAN :
       \E filter_characters \in (IF filtering THEN Blacklists ELSE { {} }) :
         stack = [j \in JobIds |->
                    IF j = 1
                    THEN << CleanFrame(InputFile(1), OutputFile(1),
                                       filtering, filter_characters) >>
                    ELSE << >>]
  /\ resorts = [j \in JobIds |-> 0]
  /\ touched = {}

NextClean == \E j \in JobIds : CleanFile(j) \/ CleanAndFilterFile(j)

SpecClean == InitClean /\ [][NextClean]_vars

(***************************************************************************)
(* SortingChecker.is_file_sorted as the loop it is (lines 112-145), one    *)
(* line per step, on a file of any content.  The frame of the call holds   *)
(* the number of lines read so far, previous_line, lines_checked and, once *)
(* the call has returned, its result.                                      *)
(***************************************************************************)
VerifyFrame(file) ==
  [ pc |-> "verifying",
    file |-> file,
    line_num |-> 0,
    previous_line |-> None,
    lines_checked |-> 0,
    result |-> <<FALSE, 0>> ]

\* a comparison of the lines as they are in the file
CurrentLineRaw(line) == line

\* line 126: current_line = line.strip()
CurrentLine(line) == Strip(line)

VerifyStep(j) ==
  /\ Depth(j) > 0
  /\ Top(j).pc = "verifying"
  /\ LET f == Top(j)
         d == fs[f.file].data
     IN IF ~fs[f.file].exists
        THEN stack' = SetTop(j, [f EXCEPT !.pc = "verified", !.result = <<FALSE, 0>>])
        ELSE IF f.line_num >= Len(d)
        THEN stack' = SetTop(j, [f EXCEPT !.pc = "verified",
                                          !.result = <<TRUE, f.lines_checked>>])
        ELSE LET line_num == f.line_num + 1
                 current_line == CurrentLine(d[line_num])
             IN IF f.previous_line.some /\ LexLess(current_line, f.previous_line.line)
                THEN stack' = SetTop(j, [f EXCEPT !.pc = "verified",
                                                  !.line_num = line_num,
                                                  !.result = <<FALSE, line_num>>])
                ELSE stack' = SetTop(j, [f EXCEPT !.line_num = line_num,
                                                  !.previous_line = Some(current_line),
                                                  !.lines_checked = line_num])
  /\ UNCHANGED <<fs, sorter, resorts, touched>>

InitVerify ==
  /\ sorter = [j \in JobIds |-> [temp_dir |-> 1, memory_limit_bytes |-> MaxBudget]]
  /\ \E i \in InputFiles :
       fs = [n \in FileNames |-> IF n = InputFile(1) THEN i ELSE Absent]
  /\ stack = [j \in JobIds |->
                IF j = 1 THEN << VerifyFrame(InputFile(1)) >> ELSE << >>]
  /\ resorts = [j \in JobIds |-> 0]
  /\ touched = {}

NextVerify == \E j \in JobIds : VerifyStep(j)

SpecVerify == InitVerify /\ [][NextVerify]_vars

(***************************************************************************)
(* LargeFileProcessor.deduplicate_and_sort (lines 864-958), the entry of a *)
(* job from the menu: it checks the input path, takes the shortcut when    *)
(* the output exists and verifies, filters the input on request, cleans it *)
(* into temp_dir/cleaned.txt and calls external_sort on the cleaned file.  *)
(* The method keeps nothing across the call but the two temp names, which  *)
(* are functions of temp_dir: while external_sort runs its frame is the    *)
(* only frame of the job, and the tail of the method runs when that frame  *)
(* is done.  An exception of external_sort leaves the method (no handler). *)
(***************************************************************************)
\* a path test that finds every file
path_exists_always(file) == TRUE

\* os.path.exists
path_exists(file) == file.exists

\* FileStats.count_lines: 0 for a missing file
count_lines(file) == IF ~file.exists THEN 0 ELSE Len(file.data)

\* REMOVE_CHARACTERS = "#"
remove_characters == {2}

\* remove_lines_with_characters, lines 541-547: the lines, as read, that
\* hold none of the characters
RemoveLinesFrom(d, characters) ==
  SelectSeq(d, LAMBDA line : ~\E char \in characters : Contains(line, char))

EntryFrame(input_file, output_file, remove_chars, auto_verify) ==
  [ input_file |-> input_file,
    output_file |-> output_file,
    remove_chars |-> remove_chars,
    auto_verify |-> auto_verify,
    pc |-> "entry",
    skipped |-> FALSE ]

\* lines 870-926: up to the call of external_sort.  _check_disk_space asks
\* the user when the disk is low; the answer is an input.  source_file is
\* the local input_file after line 903: the input or the filtered file.
DeduplicateAndSort(j) ==
  /\ Depth(j) = 1
  /\ Top(j).pc = "entry"
  /\ LET f == Top(j)
         temp_file == FilteredFile(sorter[j].temp_dir)
         cleaned_file == CleanedFile(sorter[j].temp_dir)
         filtered == RemoveLinesFrom(fs[f.input_file].data, remove_characters)
         source_file == IF f.remove_chars THEN temp_file ELSE f.input_file
         fs1 == IF f.remove_chars
                THEN [fs EXCEPT ![temp_file] = File(filtered)] ELSE fs
     IN IF ~path_exists(fs[f.input_file])
        THEN /\ stack' = SetTop(j, [f EXCEPT !.pc = "rejected"])
             /\ UNCHANGED fs
        ELSE IF fs[f.output_file].exists /\ f.auto_verify
                  /\ is_file_sorted(fs[f.output_file])[1]
        THEN /\ stack' = SetTop(j, [f EXCEPT !.pc = "returned", !.skipped = TRUE])
             /\ UNCHANGED fs
        ELSE IF count_lines(fs[f.input_file]) = 0
        THEN /\ stack' = SetTop(j, [f EXCEPT !.pc = "rejected"])
             /\ UNCHANGED fs
        ELSE \E disk_space \in BOOLEAN :
               IF ~disk_space
               THEN /\ fs' = fs1
                    /\ stack' = SetTop(j, [f EXCEPT !.pc = "rejected"])
               ELSE /\ fs' = [fs1 EXCEPT ![cleaned_file] =
                                 File(CleanFrom(fs1[source_file].data, 1, <<>>))]
                    /\ stack' = [stack EXCEPT ![j] =
                         << NewFrame(cleaned_file, f.output_file, TRUE, f.auto_verify)
                              @@ [source_file |-> source_file] >>]
  /\ UNCHANGED <<sorter, resorts, touched>>

\* lines 928-958, after external_sort has returned: remove the cleaned
\* file, ignoring errors (the loop of line 941 rebinds temp_file to the
\* cleaned file, so line 946 finds nothing to remove and the filtered file
\* stays), print the summary and return the output path.  _print_summary
\* divides by initial_lines (line 1468) and takes os.path.getsize of the
\* output (line 1471): it raises when no line was left after the filtering
\* and when the output does not exist.
DeduplicateAndSortReturn(j) ==
  /\ Depth(j) = 1
  /\ Top(j).pc = "done"
  /\ "source_file" \in DOMAIN Top(j)
  /\ LET f == Top(j)
         initial_lines == count_lines(fs[f.source_file])
     IN /\ fs' = [fs EXCEPT ![f.input_file] = Absent]
        /\ stack' = SetTop(j, [f EXCEPT !.pc =
                       IF initial_lines = 0 \/ ~fs[f.output_file].exists
                       THEN "raised" ELSE "returned"])
  /\ UNCHANGED <<sorter, resorts, touched>>

EntryInputs == { Absent } \cup { File(d) : d \in FilesUpTo(MaxLines - 1) }

EntryBudgets == {1, 2, 4}

InitEntry ==
  /\ \E b \in EntryBudgets :
       sorter = [j \in JobIds |-> [temp_dir |-> 1, memory_limit_bytes |-> b]]
  /\ \E i \in EntryInputs, o \in ExistingOutputs, t \in ExistingTemps :
       fs = [n \in FileNames |->
               IF n = InputFile(1) THEN i
               ELSE IF n = OutputFile(1) THEN o
               ELSE IF n = TempOutput(OutputFile(1)) THEN t
               ELSE Absent]
  /\ \E remove_chars \in BOOLEAN, auto_verify \in BOOLEAN :
       stack = [j \in JobIds |->
                  IF j = 1
                  THEN << EntryFrame(InputFile(1), OutputFile(1), remove_chars, auto_verify) >>
                  ELSE << >>]
  /\ resorts = [j \in JobIds |-> 0]
  /\ touched = {}

NextEntry ==
  \/ Next
  \/ \E j \in JobIds : DeduplicateAndSort(j)
  \/ \E j \in JobIds : DeduplicateAndSortReturn(j)

SpecEntry == InitEntry /\ [][NextEntry]_vars

(***************************************************************************)
(* The two stand-alone scripts.  Duplications_Removal.py reads its file    *)
(* into memory and writes the kept lines back to it;                       *)
(* Duplications_Removal_Large_File.py passes twice over its file and       *)
(* writes the kept lines to a second file.  Job 1 runs the first script on *)
(* InputFile(1), job 2 the second on InputFile(2) with OutputFile(2) as    *)
(* its output file; both files start with the same content.  A line of a   *)
(* file is kept as read (line.strip() is only the key of the counting and  *)
(* of the seen set).                                                       *)
(***************************************************************************)
\* a key that is the line as read
stripped_line_raw(line) == line

\* line.strip(): the key of a line
stripped_line(line) == Strip(line)

\* Counter: the occurrences of key v among the lines of d
line_counts(d, v) ==
  Cardinality({ i \in 1..Len(d) : stripped_line(d[i]) = v })

\* the keys that occur more than once
duplicates(d) ==
  { v \in { stripped_line(d[i]) : i \in 1..Len(d) } : line_counts(d, v) > 1 }

\* the sum of count - 1 over the duplicates
RECURSIVE SumDeleted(_, _)
SumDeleted(d, keys) ==
  IF keys = {} THEN 0
  ELSE LET v == CHOOSE v \in keys : TRUE
       IN (line_counts(d, v) - 1) + SumDeleted(d, keys \ {v})

total_deleted(d) == SumDeleted(d, duplicates(d))

ScriptFrame(file_path, output_path, pc) ==
  [ pc |-> pc,
    file_path |-> file_path,
    output_path |-> output_path,
    lines |-> <<>>,
    total_deleted |-> 0,
    i |-> 0,
    unique_lines |-> <<>>,
    seen |-> {},
    reported |-> -1 ]

\* Duplications_Removal.py lines 7-8: readlines; open raises when the file
\* does not exist
MemRead(j) ==
  /\ Depth(j) > 0
  /\ Top(j).pc = "mem_read"
  /\ LET f == Top(j) IN
       IF ~fs[f.file_path].exists
       THEN stack' = SetTop(j, [f EXCEPT !.pc = "raised"])
       ELSE stack' = SetTop(j, [f EXCEPT !.pc = "mem_count",
                                         !.lines = fs[f.file_path].data])
  /\ UNCHANGED <<fs, sorter, resorts, touched>>

\* lines 11-28: count the stripped lines and add up the deleted ones
MemCount(j) ==
  /\ Depth(j) > 0
  /\ Top(j).pc = "mem_count"
  /\ stack' = SetTop(j, [Top(j) EXCEPT !.pc = "mem_keep",
                                       !.total_deleted = total_deleted(Top(j).lines)])
  /\ UNCHANGED <<fs, sorter, resorts, touched>>

\* lines 34-37: one iteration of the loop over the lines
MemKeep(j) ==
  /\ Depth(j) > 0
  /\ Top(j).pc = "mem_keep"
  /\ Top(j).i < Len(Top(j).lines)
  /\ LET f == Top(j)
         line == f.lines[f.i + 1]
     IN stack' = SetTop(j,
          IF stripped_line(line) \notin f.seen
          THEN [f EXCEPT !.i = @ + 1,
                         !.unique_lines = Append(@, line),
                         !.seen = @ \cup {stripped_line(line)}]
          ELSE [f EXCEPT !.i = @ + 1])
  /\ UNCHANGED <<fs, sorter, resorts, touched>>

\* lines 40-47, after the loop: write the kept lines back and print the total
MemWrite(j) ==
  /\ Depth(j) > 0
  /\ Top(j).pc = "mem_keep"
  /\ Top(j).i = Len(Top(j).lines)
  /\ fs' = [fs EXCEPT ![Top(j).file_path] = File(Top(j).unique_lines)]
  /\ stack' = SetTop(j, [Top(j) EXCEPT !.pc = "done",
                                       !.reported = Top(j).total_deleted])
  /\ UNCHANGED <<sorter, resorts, touched>>

\* Duplications_Removal_Large_File.py lines 7-26: the first pass, the
\* duplicates and their total; exit() when there is no duplicate
LargeCount(j) ==
  /\ Depth(j) > 0
  /\ Top(j).pc = "large_count"
  /\ LET f == Top(j) IN
       IF ~fs[f.file_path].exists
       THEN stack' = SetTop(j, [f EXCEPT !.pc = "raised"])
       ELSE IF duplicates(fs[f.file_path].data) = {}
       THEN stack' = SetTop(j, [f EXCEPT !.pc = "exited"])
       ELSE stack' = SetTop(j, [f EXCEPT !.pc = "large_open",
                       !.total_deleted = total_deleted(fs[f.file_path].data)])
  /\ UNCHANGED <<fs, sorter, resorts, touched>>

\* line 31: open the file again and create the output file
LargeOpen(j) ==
  /\ Depth(j) > 0
  /\ Top(j).pc = "large_open"
  /\ LET f == Top(j) IN
       IF ~fs[f.file_path].exists
       THEN /\ stack' = SetTop(j, [f EXCEPT !.pc = "raised"])
            /\ UNCHANGED fs
       ELSE /\ stack' = SetTop(j, [f EXCEPT !.pc = "large_keep",
                                            !.lines = fs[f.file_path].data])
            /\ fs' = [fs EXCEPT ![f.output_path] = File(<<>>)]
  /\ UNCHANGED <<sorter, resorts, touched>>

\* lines 32-36: one iteration of the second pass
LargeKeep(j) ==
  /\ Depth(j) > 0
  /\ Top(j).pc = "large_keep"
  /\ Top(j).i < Len(Top(j).lines)
  /\ LET f == Top(j)
         line == f.lines[f.i + 1]
     IN IF stripped_line(line) \notin f.seen
        THEN /\ fs' = [fs EXCEPT ![f.output_path] = File(Append(@.data, line))]
             /\ stack' = SetTop(j, [f EXCEPT !.i = @ + 1,
                                             !.seen = @ \cup {stripped_line(line)}])
        ELSE /\ stack' = SetTop(j, [f EXCEPT !.i = @ + 1])
             /\ UNCHANGED fs
  /\ UNCHANGED <<sorter, resorts, touched>>

\* lines 36-39: the end of the second pass; print the total
LargeReport(j) ==
  /\ Depth(j) > 0
  /\ Top(j).pc = "large_keep"
  /\ Top(j).i = Len(Top(j).lines)
  /\ stack' = SetTop(j, [Top(j) EXCEPT !.pc = "done",
                                       !.reported = Top(j).total_deleted])
  /\ UNCHANGED <<fs, sorter, resorts, touched>>

\* "a", an output file of an earlier run
ScriptOutputs == { Absent, File(<< <<1>> >>) }

InitScripts ==
  /\ sorter = [j \in JobIds |-> [temp_dir |-> 1, memory_limit_bytes |-> MaxBudget]]
  /\ \E i \in InputFiles, o \in ScriptOutputs :
       fs = [n \in FileNames |->
               IF n \in {InputFile(1), InputFile(2)} THEN i
               ELSE IF n = OutputFile(2) THEN o
               ELSE Absent]
  /\ stack = [j \in JobIds |->
                IF j = 1
                THEN << ScriptFrame(InputFile(1), InputFile(1), "mem_read") >>
                ELSE << ScriptFrame(InputFile(2), OutputFile(2), "large_count") >>]
  /\ resorts = [j \in JobIds |-> 0]
  /\ touched = {}

NextScripts ==
  \E j \in JobIds :
    \/ MemRead(j)
    \/ MemCount(j)
    \/ MemKeep(j)
    \/ MemWrite(j)
    \/ LargeCount(j)
    \/ LargeOpen(j)
    \/ LargeKeep(j)
    \/ LargeReport(j)

SpecScripts == InitScripts /\ [][NextScripts]_vars

(***************************************************************************)
(* Vocabulary of the properties.                                           *)
(***************************************************************************)
\* external_sort of job j has returned True / has raised
Returned(j) == Depth(j) = 1 /\ Top(j).pc = "done"
Raised(j) == Depth(j) = 1 /\ Top(j).pc = "raised"

\* the trimmed, non-empty lines of a file content, in order
Cleaned(d) ==
  SelectSeq([i \in 1..Len(d) |-> Strip(d[i])], LAMBDA x : x # <<>>)

BagOfSeq(s) ==
  [x \in SeqRange(s) |-> Cardinality({ i \in 1..Len(s) : s[i] = x })]

NonDecreasing(d) == \A i \in 1..(Len(d) - 1) : ~LexLess(d[i + 1], d[i])
StrictlyIncreasing(d) == \A i \in 1..(Len(d) - 1) : LexLess(d[i], d[i + 1])

RECURSIVE DropAdjacent(_)
DropAdjacent(s) ==
  IF Len(s) < 2 THEN s
  ELSE IF s[1] = s[2] THEN DropAdjacent(Tail(s))
  ELSE <<s[1]>> \o DropAdjacent(Tail(s))

PositiveBudget(j) == sorter[j].memory_limit_bytes > 0

\* external_sort has returned True after running the pipeline (it did not
\* take the shortcut of lines 164-169)
Sorted(j) == Returned(j) /\ ~Top(j).skipped

\* C1: whenever external_sort has returned, for an existing input and a
\* positive budget, is_file_sorted reports the output file sorted.
C1_Sortedness ==
  \A j \in JobIds :
    (Sorted(j) /\ PositiveBudget(j) /\ fs[InputFile(j)].exists)
      => is_file_sorted(fs[OutputFile(j)])[1]

\* the frames that are merging or have just merged at least one chunk
MergeFrames ==
  { f \in UNION { SeqRange(stack[j]) : j \in JobIds } :
      f.pc = "merging" \/ (f.pc = "verify" /\ f.chunks # <<>>) }

ChunksSorted(f) ==
  \A c \in SeqRange(f.chunks) : fs[c].exists => NonDecreasing(fs[c].data)

\* C2: during a deduplicating merge of sorted chunks and at its end, the
\* output written so far is strictly increasing.
C2_DedupStrictlyIncreasing ==
  \A f \in MergeFrames :
    (f.deduplicate /\ ChunksSorted(f))
      => StrictlyIncreasing(fs[f.output_file].data)

\* a deduplicating merge of several chunks has ended after dropping a duplicate
C2_Witness ==
  \E f \in MergeFrames :
    /\ f.pc = "verify" /\ f.deduplicate /\ ChunksSorted(f)
    /\ Len(f.chunks) >= 2
    /\ Len(fs[f.output_file].data) >= 2
    /\ Len(fs[f.output_file].data) < Len(Cleaned(fs[f.input_file].data))

\* C3: with deduplicate disabled, once external_sort has returned, the
\* multiset of output lines equals the multiset of cleaned input lines.
C3_MultisetPreserved ==
  \A j \in JobIds :
    (Sorted(j) /\ ~Top(j).deduplicate /\ PositiveBudget(j)
       /\ fs[InputFile(j)].exists)
      => BagOfSeq(fs[OutputFile(j)].data)
           = BagOfSeq(Cleaned(fs[InputFile(j)].data))

\* C4: with deduplicate enabled, once external_sort has returned, the
\* output is the ascending sequence of the distinct cleaned input lines.
C4_DistinctAscending ==
  \A j \in JobIds :
    (Sorted(j) /\ Top(j).deduplicate /\ PositiveBudget(j)
       /\ fs[InputFile(j)].exists)
      => fs[OutputFile(j)].data
           = DropAdjacent(SortedOf(Cleaned(fs[InputFile(j)].data)))

\* C5: when the input holds no record, once the job has ended the output
\* file exists, is empty, and verifies as sorted with 0 lines checked.
C5_EmptyInput ==
  \A j \in JobIds :
    ((Sorted(j) \/ Raised(j)) /\ fs[InputFile(j)].exists
       /\ Cleaned(fs[InputFile(j)].data) = <<>>)
      => /\ fs[OutputFile(j)] = File(<<>>)
         /\ is_file_sorted(fs[OutputFile(j)]) = <<TRUE, 0>>

\* the merge of the chunks of frame f that could be opened
RECURSIVE OpenedRecords(_, _, _)
OpenedRecords(f, i, acc) ==
  IF i > Len(f.chunks) THEN acc
  ELSE OpenedRecords(f, i + 1,
         IF i \in f.open_failed THEN acc ELSE acc \o fs[f.chunks[i]].data)

MergeOfOpened(f) ==
  IF f.deduplicate THEN DropAdjacent(SortedOf(OpenedRecords(f, 1, <<>>)))
  ELSE SortedOf(OpenedRecords(f, 1, <<>>))

AllFrames == UNION { SeqRange(stack[j]) : j \in JobIds }

\* C6: a merge in which a chunk could not be opened does not abort, and
\* when it ends the output is the merge of the chunks that were opened.
C6_ChunkFailureTolerated ==
  \A f \in AllFrames :
    f.open_failed # {}
      => /\ f.pc # "raised"
         /\ f.pc = "verify" => fs[f.output_file].data = MergeOfOpened(f)

\* C9: once a job has ended, by returning or by raising, no chunk file it
\* wrote is left in the temp directory.
C9_ChunksDeleted ==
  \A j \in JobIds :
    (Returned(j) \/ Raised(j))
      => \A t \in touched : (t[1] = j /\ t[3] = "write") => ~fs[t[2]].exists

\* C7: a job whose output is still unsorted after the re-sort does not
\* return success.
C7_FatalOnFailedRetry ==
  \A j \in JobIds :
    ~(Returned(j) /\ PositiveBudget(j) /\ Top(j).heal = "still_unsorted")

\* C8: no job starts a second re-sort; a re-sort is one nested call that
\* takes the output as its input, writes output + ".temp", and runs with
\* deduplication and verification off; the re-sorted output is verified
\* only after that one re-sort.
C8_BoundedSelfHealing ==
  \A j \in JobIds :
    /\ resorts[j] <= 1
    /\ Depth(j) <= 2
    /\ Depth(j) = 2 =>
         /\ resorts[j] = 1
         /\ stack[j][1].pc = "resorting"
         /\ stack[j][2].input_file = stack[j][1].output_file
         /\ stack[j][2].output_file = TempOutput(stack[j][1].output_file)
         /\ ~stack[j][2].deduplicate
         /\ ~stack[j][2].auto_verify
    /\ \A i \in 1..Depth(j) : stack[j][i].heal # "none" => resorts[j] = 1

\* a job returned after one re-sort that left its output sorted
C8_Witness ==
  \E j \in JobIds :
    Returned(j) /\ resorts[j] = 1 /\ Top(j).heal = "sorted"
      /\ is_file_sorted(fs[OutputFile(j)])[1]

\* job j has written chunk file n and has not yet removed it
InUse(j, n) ==
  \E i \in 1..Depth(j) :
    n \in SeqRange(stack[j][i].chunks) /\ stack[j][i].pc # "done"

\* C10: two jobs over the same temp directory never use the same chunk
\* file: no chunk file is among the chunks one job has written and not yet
\* removed while it is among those of another job.
C10_ChunkFilesPerJob ==
  \A j \in JobIds : \A k \in JobIds \ {j} :
    sorter[j].temp_dir = sorter[k].temp_dir
      => \A n \in ChunkNames : ~(InUse(j, n) /\ InUse(k, n))

\* job j is about to start and its output file exists and verifies
OutputVerifies(j) ==
  /\ Depth(j) = 1
  /\ Top(j).pc = "start"
  /\ fs[OutputFile(j)].exists
  /\ is_file_sorted(fs[OutputFile(j)])[1]

\* the step of job j ends the job at once: nothing was spilled or merged and
\* no file has changed
ShortcutStep(j) ==
  /\ Len(stack'[j]) = 1
  /\ stack'[j][1].pc = "done"
  /\ stack'[j][1].chunks = <<>>
  /\ stack'[j][1].lines_written = 0
  /\ fs' = fs
  /\ touched' = touched

EndedInMerge(f) ==
  /\ f.pc = "raised"
  /\ f.current_lines # <<>>
  /\ MinIndex(f.current_lines, 1, 0) # 0

\* C12: when a job was cancelled or aborted during merging, no later job
\* with the same output path takes the shortcut of lines 164-169.
C12_PartialOutputNotTrusted ==
  \A j \in JobIds : \A k \in JobIds \ {j} :
    (Depth(j) = 1 /\ EndedInMerge(Top(j)) /\ Depth(k) > 0
       /\ stack[k][1].output_file = Top(j).output_file)
      => ~stack[k][1].skipped

\* the encoded size of a sequence of lines
RECURSIVE SumLen(_)
SumLen(d) == IF d = <<>> THEN 0 ELSE Utf8Len(Head(d)) + SumLen(Tail(d))

\* the chunk files of frame f that are as the spiller wrote them: the frame
\* is still spilling or about to merge
SpilledChunks(f) ==
  IF f.pc \in {"spill", "merge"}
  THEN { c \in SeqRange(f.chunks) : fs[c].exists } ELSE {}

\* C13: the lines of a chunk the spiller has written take no more bytes
\* than the memory budget (stated here for inputs in which no single line
\* is larger than the budget).
C13_MemoryBound ==
  \A j \in JobIds : \A f \in SeqRange(stack[j]) :
    (/\ fs[f.input_file].exists
     /\ \A l \in SeqRange(Cleaned(fs[f.input_file].data)) :
          Utf8Len(l) <= sorter[j].memory_limit_bytes)
      => \A c \in SpilledChunks(f) :
           SumLen(fs[c].data) <= sorter[j].memory_limit_bytes

\* C14: once the spilling of an input has ended, every line of the input
\* that is larger than the budget is the single record of one of the
\* chunks (stated here for a chunk_size of at least 1).
C14_OversizedLineOwnChunk ==
  \A j \in JobIds : \A f \in SeqRange(stack[j]) :
    (f.pc = "merge" /\ fs[f.input_file].exists /\ chunk_size(j) >= 1)
      => \A l \in SeqRange(Cleaned(fs[f.input_file].data)) :
           Utf8Len(l) > sorter[j].memory_limit_bytes
             => \E c \in SpilledChunks(f) : fs[c].data = <<l>>

\* job j has returned after spilling at least one chunk and merging: its
\* output file is the one this run wrote
Wrote(j) == Sorted(j) /\ Top(j).chunks # <<>>

\* C15: two runs over the same input with the same deduplicate flag and
\* positive budgets, the second into a fresh output path, leave identical
\* output files (compared when the first run wrote its output).
C15_ChunkCountInvariance ==
  (/\ Wrote(1) /\ Sorted(2)
   /\ Top(2).input_file = Top(1).input_file
   /\ Top(2).deduplicate = Top(1).deduplicate
   /\ PositiveBudget(1) /\ PositiveBudget(2))
    => fs[Top(2).output_file] = fs[Top(1).output_file]

\* C16: when a deduplicating run has written its output and a second
\* deduplicating run over that output, into a fresh path, has ended, the
\* second run has returned and its output equals the first output.
C16_DedupIdempotent ==
  (/\ Wrote(1) /\ Top(1).deduplicate
   /\ Depth(2) = 1 /\ Top(2).pc \in {"done", "raised"}
   /\ Top(2).input_file = Top(1).output_file
   /\ Top(2).deduplicate
   /\ PositiveBudget(1) /\ PositiveBudget(2))
    => /\ Returned(2)
       /\ fs[Top(2).output_file] = fs[Top(1).output_file]

\* C17: when _merge_chunks has ended, its output is non-decreasing if and
\* only if every chunk it was given is non-decreasing.
C17_MergeSortedIffChunksSorted ==
  \A f \in AllFrames :
    f.pc = "verify"
      => (NonDecreasing(fs[f.output_file].data) <=> ChunksSorted(f))

\* a deduplicating merge of two chunks has ended, one chunk was not sorted
\* and the output is not sorted
C17_Witness ==
  \E f \in AllFrames :
    /\ f.pc = "verify" /\ f.deduplicate
    /\ Len(f.chunks) = 2
    /\ NonDecreasing(fs[f.chunks[1]].data)
    /\ ~NonDecreasing(fs[f.chunks[2]].data)
    /\ fs[f.output_file].exists
    /\ ~NonDecreasing(fs[f.output_file].data)
    /\ Len(fs[f.output_file].data) < Len(fs[f.chunks[1]].data) + Len(fs[f.chunks[2]].data)

\* C18: the step in which a job finds its output still unsorted after the
\* re-sort leaves the output file as it was before that step: the file the
\* first verification rejected.
C18_BadOutputPreserved ==
  [][\A j \in JobIds :
       (/\ Depth(j) = 2
        /\ PositiveBudget(j)
        /\ Len(stack'[j]) = 1
        /\ stack'[j][1].heal = "still_unsorted")
         => fs'[stack[j][1].output_file] = fs[stack[j][1].output_file]]_vars

\* C19: once a job has ended by raising (a cancellation, an I/O error or
\* any other exception), none of the chunk files it wrote exists.
C19_AbortDeletesChunks ==
  \A j \in JobIds :
    Raised(j)
      => \A n \in ChunkNames : <<j, n, "write">> \in touched => ~fs[n].exists

\* C20: an ExternalSorter whose memory budget is 0 never completes a run
\* over an input that holds records: external_sort does not return True
\* after going through the pipeline.
C20_ZeroBudgetRejected ==
  \A j \in JobIds :
    (sorter[j].memory_limit_bytes = 0 /\ fs[InputFile(j)].exists
       /\ Cleaned(fs[InputFile(j)].data) # <<>>)
      => ~Sorted(j)

\* the 1-based numbers of the lines of d that are less than the line before
Descents(d) == { n \in 2..Len(d) : LexLess(d[n], d[n - 1]) }

\* the report the claim describes for lines d: not sorted at the first
\* descent, else sorted with the number of lines
ReportFor(d) ==
  IF Descents(d) = {} THEN <<TRUE, Len(d)>>
  ELSE <<FALSE, CHOOSE n \in Descents(d) : \A m \in Descents(d) : n <= m>>

Trimmed(d) == [i \in 1..Len(d) |-> Strip(d[i])]

\* the calls of is_file_sorted on an existing file that have returned
Verified ==
  { f \in AllFrames : f.pc = "verified" /\ fs[f.file].exists }

StageOrder ==
  { <<"start", "spill">>, <<"start", "done">>,
    <<"spill", "spill">>, <<"spill", "merge">>,
    <<"merge", "merging">>, <<"merge", "verify">>,
    <<"merging", "merging">>, <<"merging", "verify">>,
    <<"verify", "cleanup">>, <<"verify", "resorting">>,
    <<"resorting", "cleanup">>,
    <<"cleanup", "done">> }
    \cup { <<p, "raised">> : p \in {"spill", "merging", "resorting"} }

\* a call that has left the spilling with chunks has read its input to the end
SpillComplete(f) ==
  (f.pc \in {"merge", "merging", "verify", "resorting", "cleanup"}
     /\ f.chunks # <<>> /\ fs[f.input_file].exists)
    => f.pos = Len(fs[f.input_file].data)

\* a call that verifies, re-sorts or cleans up has merged every chunk line
MergeComplete(f) ==
  f.pc \in {"verify", "resorting", "cleanup"}
    => /\ MinIndex(f.current_lines, 1, 0) = 0
       /\ f.chunk_files = <<>>

\* C22: in every run the stages of a call of external_sort follow one
\* another in the order spilling, merging, verifying, then the end or one
\* re-sort; chunk files are written only while spilling and the input has
\* been read to its end before the merge; the output is written only
\* while merging and every chunk line has been merged before the
\* verification.
C22_StageOrdering ==
  /\ [](\A f \in AllFrames : SpillComplete(f) /\ MergeComplete(f))
  /\ [][\A j \in JobIds :
         /\ \A i \in 1..Len(stack[j]) :
              i <= Len(stack'[j]) =>
                LET f == stack[j][i]
                    g == stack'[j][i]
                IN \/ f = g
                   \/ /\ <<f.pc, g.pc>> \in StageOrder
                      /\ f.pc # "spill" => g.chunks = f.chunks
                      /\ f.pc # "merging" => g.lines_written = f.lines_written
         /\ Len(stack'[j]) > Len(stack[j]) =>
              /\ Depth(j) > 0
              /\ Top(j).pc = "verify"
              /\ stack'[j][Len(stack'[j])].pc = "start"
         /\ \A n \in ChunkNames :
              (<<j, n, "write">> \in touched' \ touched
                 \/ (fs'[n] # fs[n] /\ fs'[n].exists /\ stack'[j] # stack[j]))
                => (Depth(j) > 0 /\ Top(j).pc = "spill")]_vars

\* a verifying call has spilled several chunks, merged them and verified
\* the output
C22_Witness ==
  \E j \in JobIds :
    /\ Depth(j) = 1
    /\ Top(j).pc = "cleanup"
    /\ Top(j).auto_verify
    /\ Len(Top(j).chunks) >= 2
    /\ Top(j).lines_written >= 2

\* both merges over the two chunk files have ended
BothMerged == \A j \in JobIds : Depth(j) = 1 /\ Top(j).pc = "verify"

AllChunkRecords == fs[MergeChunks[1]].data \o fs[MergeChunks[2]].data

CleanedWithout(d, blacklist) ==
  SelectSeq(Trimmed(d),
            LAMBDA x : x # <<>> /\ \A i \in 1..Len(x) : x[i] \notin blacklist)

\* C24: the file written by _clean_file or _clean_and_filter_file holds
\* the trimmed input lines that are not empty and contain no blacklisted
\* character, in their original order (no blacklist for _clean_file).
C24_LineCleaning ==
  \A f \in AllFrames :
    f.pc = "cleaned"
      => fs[f.output_file]
           = File(CleanedWithout(fs[f.input_file].data, f.filter_characters))

\* a filtering pass has dropped a blank line and a blacklisted line and
\* has kept a line it trimmed
C24_Witness ==
  \E f \in AllFrames :
    /\ f.pc = "cleaned" /\ f.filtering
    /\ \E i \in 1..Len(fs[f.input_file].data) :
         Strip(fs[f.input_file].data[i]) = <<>>
    /\ \E i \in 1..Len(fs[f.input_file].data) :
         /\ Strip(fs[f.input_file].data[i]) # <<>>
         /\ ~Keeps(fs[f.input_file].data[i], f.filter_characters)
    /\ \E i \in 1..Len(fs[f.input_file].data) :
         /\ Strip(fs[f.input_file].data[i]) # fs[f.input_file].data[i]
         /\ Keeps(fs[f.input_file].data[i], f.filter_characters)
    /\ Len(fs[f.output_file].data) = 1

\* the files of the temp directories
TempFiles ==
  ChunkNames \cup { CleanedFile(d) : d \in TempDirs }
             \cup { FilteredFile(d) : d \in TempDirs }

\* C25: no step of a job, on a path that returns or on one that fails,
\* deletes or changes the job's input file; a job whose input path is
\* missing is rejected by its first step, which changes no file, and no
\* chunk file or other temp file is ever created for it.
C25_InputNeverDestroyed ==
  /\ [][\A j \in JobIds : fs'[InputFile(j)] = fs[InputFile(j)]]_vars
  /\ [](\A j \in JobIds :
          (Depth(j) > 0 /\ ~fs[InputFile(j)].exists)
            => /\ Depth(j) = 1
               /\ Top(j).pc \in {"entry", "rejected"}
               /\ \A n \in TempFiles : ~fs[n].exists
               /\ \A t \in touched : t[1] # j)
  /\ [][\A j \in JobIds :
          (Depth(j) > 0 /\ ~fs[InputFile(j)].exists /\ stack'[j] # stack[j])
            => /\ stack'[j][1].pc = "rejected"
               /\ fs' = fs]_vars

\* a job was rejected for its missing input although a sorted output of
\* earlier work exists and the job verifies
C25_Witness ==
  \E j \in JobIds :
    /\ Depth(j) = 1
    /\ Top(j).pc = "rejected"
    /\ Top(j).auto_verify
    /\ ~fs[InputFile(j)].exists
    /\ fs[OutputFile(j)].exists
    /\ is_file_sorted(fs[OutputFile(j)])[1]

\* C26: a chunk file is non-decreasing whenever it is written, and from
\* then on no step changes or removes it while the call that wrote it is
\* still spilling or merging.
C26_SealedChunksImmutable ==
  /\ [][\A n \in ChunkNames :
          (fs'[n] # fs[n] /\ fs'[n].exists) => NonDecreasing(fs'[n].data)]_vars
  /\ [][\A j \in JobIds : \A i \in 1..Depth(j) :
          stack[j][i].pc \in {"spill", "merge", "merging"}
            => \A n \in SeqRange(stack[j][i].chunks) : fs'[n] = fs[n]]_vars

\* the records of the chunk files of a list, in the order of the list
RECURSIVE RecordsOf(_)
RecordsOf(chunks) ==
  IF chunks = <<>> THEN <<>>
  ELSE fs[Head(chunks)].data \o RecordsOf(Tail(chunks))

\* the spilling of frame f has ended having read the input to its end,
\* with every record of the input in exactly one chunk and no empty chunk
SpillingComplete(f) ==
  /\ f.pos = Len(fs[f.input_file].data)
  /\ BagOfSeq(RecordsOf(f.chunks)) = BagOfSeq(Cleaned(fs[f.input_file].data))
  /\ \A c \in SeqRange(f.chunks) : fs[c].exists /\ Len(fs[c].data) >= 1
  /\ Len(f.chunks) <= Len(Cleaned(fs[f.input_file].data))

\* C27: with a positive budget, a call never spills more chunks than the
\* input has records (the loop ends), and when _create_sorted_chunks has
\* returned the input was read to its end, every non-empty trimmed line
\* is in exactly one chunk and each chunk holds at least one record; an
\* input with no record gives zero chunks.
C27_SpillTerminatesComplete ==
  \A j \in JobIds : \A f \in SeqRange(stack[j]) :
    (PositiveBudget(j) /\ fs[f.input_file].exists)
      => /\ f.pc = "spill" => f.chunk_num <= Len(Cleaned(fs[f.input_file].data))
         /\ f.pc = "merge" => SpillingComplete(f)

\* the same for a chunk_size of at least 1 byte
C27_SpillCompleteFromTwoBytes ==
  \A j \in JobIds : \A f \in SeqRange(stack[j]) :
    (chunk_size(j) >= 1 /\ fs[f.input_file].exists)
      => /\ f.pc = "spill" => f.chunk_num <= Len(Cleaned(fs[f.input_file].data))
         /\ f.pc = "merge" => SpillingComplete(f)

\* the step ends the re-sort of job j: the nested call has returned and
\* _auto_verify_sorting replaces the output of the calling frame
EndsResort(j) ==
  /\ Depth(j) = 2
  /\ Top(j).pc = "done"
  /\ stack[j][1].pc = "resorting"
  /\ Len(stack'[j]) = 1

\* the output of job j holds after the step the multiset of records it
\* held before
KeepsRecords(j) ==
  /\ fs'[stack[j][1].output_file].exists
  /\ BagOfSeq(Cleaned(fs'[stack[j][1].output_file].data))
       = BagOfSeq(Cleaned(fs[stack[j][1].output_file].data))

\* C28: with a positive budget, the step that ends a re-sort of an
\* unsorted output leaves an output file that holds exactly the multiset
\* of non-empty records the unsorted output held.
C28_ResortKeepsRecords ==
  [][\A j \in JobIds :
       (EndsResort(j) /\ PositiveBudget(j)) => KeepsRecords(j)]_vars

\* the same for a chunk_size of at least 1 byte
C28_ResortKeepsFromTwoBytes ==
  [][\A j \in JobIds :
       (EndsResort(j) /\ chunk_size(j) >= 1) => KeepsRecords(j)]_vars

\* the positions of d whose trimmed line occurs at no earlier position
FirstPositions(d) ==
  { i \in 1..Len(d) : \A k \in 1..(i - 1) : Strip(d[k]) # Strip(d[i]) }

\* the lines of d at the positions of idx, in the order of d
LinesAt(d, idx) ==
  [n \in 1..Cardinality(idx) |->
     d[CHOOSE i \in idx : Cardinality({ k \in idx : k <= i }) = n]]

\* the first occurrence of each distinct trimmed line of d, in order
FirstOccurrences(d) == LinesAt(d, FirstPositions(d))

\* the in-memory script has ended
MemDone == Depth(1) = 1 /\ Top(1).pc = "done"

LargeEnded == Depth(2) = 1 /\ Top(2).pc \in {"done", "exited"}

\* C30: when both scripts have ended on files of the same content, the
\* output file of the large-file script holds the same sequence of lines
\* as the file the in-memory script wrote back, whether or not the content
\* has duplicates (stated here for contents of at least one line).
C30_ScriptsAgree ==
  (MemDone /\ LargeEnded /\ Top(1).lines # <<>>)
    => fs[OutputFile(2)] = fs[InputFile(1)]

\* the same for the runs in which the large-file script made its second
\* pass (the content has a duplicate)
C30_ScriptsAgreeOnDuplicates ==
  (MemDone /\ Depth(2) = 1 /\ Top(2).pc = "done")
    => fs[OutputFile(2)] = fs[InputFile(1)]

====
